---- MODULE Spec2Model ----
(***************************************************************************)
(* A model of sqlite_dbhash (src/src/lib.rs): dbhash, hash_content,        *)
(* hash_schema and hash_query, run against a small engine that evaluates   *)
(* the SQL text the library sends (LIKE, COLLATE nocase, quoted            *)
(* identifiers) over a schema catalog and table contents.                  *)
(*                                                                         *)
(* Strings are sequences of Unicode codepoints; Text and Blob values and   *)
(* the accumulator are sequences of bytes.  The SHA-1 accumulator is the   *)
(* byte stream fed to it, and the digest is that stream (the hash taken    *)
(* as injective on byte streams).                                          *)
(***************************************************************************)
EXTENDS Integers, Sequences, FiniteSets, TLC

\* ------------------------------------------------------------------ bounds
\* Number of dbhash calls in one behaviour.
MaxRuns == 2
\* Number of CREATE INDEX statements executed between calls.
MaxIndexes == 1
\* Length of the table names of the quoting specification.
MaxNameLen == 3

\* --------------------------------------------------------- program constants
DQUOTE == 34
PERCENT == 37
UNDERSCORE == 95
TAG_NULL == 48
TAG_INTEGER == 49
TAG_REAL == 50
TAG_TEXT == 51
TAG_BLOB == 52

\* ----------------------------------------------------------- string helpers
\* UTF-8 encoding of a string of codepoints (below U+0800), as SQLite stores
\* catalog text and as ValueRef::Text hands it to the hasher.
RECURSIVE Utf8(_)
Utf8(s) ==
    IF s = <<>> THEN <<>>
    ELSE LET c == Head(s) IN
         (IF c < 128 THEN <<c>>
          ELSE <<192 + (c \div 64), 128 + (c % 64)>>) \o Utf8(Tail(s))

\* ASCII-only case folding used by LIKE and by COLLATE nocase.
Fold(c) == IF c >= 65 /\ c <= 90 THEN c + 32 ELSE c

\* x LIKE pattern: '%' matches any run of characters, '_' exactly one
\* character, every other character itself up to ASCII case.
RECURSIVE Like(_, _)
Like(pattern, x) ==
    IF pattern = <<>> THEN x = <<>>
    ELSE IF Head(pattern) = PERCENT
         THEN Like(Tail(pattern), x) \/ (x # <<>> /\ Like(pattern, Tail(x)))
         ELSE /\ x # <<>>
              /\ \/ Head(pattern) = UNDERSCORE
                 \/ Fold(Head(pattern)) = Fold(Head(x))
              /\ Like(Tail(pattern), Tail(x))

\* Three-way comparison of two byte strings under COLLATE nocase:
\* -1, 0 or 1.  Bytes are compared after ASCII folding, a proper prefix
\* sorts first.
RECURSIVE NocaseCmp(_, _)
NocaseCmp(a, b) ==
    IF a = <<>> THEN (IF b = <<>> THEN 0 ELSE -1)
    ELSE IF b = <<>> THEN 1
    ELSE IF Fold(Head(a)) < Fold(Head(b)) THEN -1
    ELSE IF Fold(Head(a)) > Fold(Head(b)) THEN 1
    ELSE NocaseCmp(Tail(a), Tail(b))

\* ------------------------------------------------------------ column values
\* rusqlite::types::ValueRef.  An Integer is an i64 (the model draws it from
\* the part of the i64 range that fits a 32-bit integer); a Real is an f64
\* given by the fields of its IEEE-754 bit pattern: sign (1 bit), exponent
\* (11 bits) and the 52-bit fraction in three limbs of 20, 16 and 16 bits.
Null == [tag |-> "Null", int |-> 0, real |-> <<0, 0, 0, 0, 0>>, bytes |-> <<>>]
Integer(i) == [tag |-> "Integer", int |-> i, real |-> <<0, 0, 0, 0, 0>>, bytes |-> <<>>]
Real(s, e, fh, fm, fl) ==
    [tag |-> "Real", int |-> 0, real |-> <<s, e, fh, fm, fl>>, bytes |-> <<>>]
Text(b) == [tag |-> "Text", int |-> 0, real |-> <<0, 0, 0, 0, 0>>, bytes |-> b]
Blob(b) == [tag |-> "Blob", int |-> 0, real |-> <<0, 0, 0, 0, 0>>, bytes |-> b]

\* i64::to_be_bytes: byte k (1 = most significant) of the two's-complement
\* value.  The four high bytes of a value within 32 bits are its sign
\* extension.
I64ByteAt(v, k) ==
    IF k <= 4 THEN (IF v < 0 THEN 255 ELSE 0)
    ELSE CASE k = 5 -> (v \div 16777216) % 256
           [] k = 6 -> (v \div 65536) % 256
           [] k = 7 -> (v \div 256) % 256
           [] k = 8 -> v % 256

i64_to_be_bytes(v) == [k \in 1..8 |-> I64ByteAt(v, k)]

\* f64::to_be_bytes: the raw bit pattern (f64::to_bits), most significant
\* byte first.
f64_to_be_bytes(r) ==
    LET s == r[1]  e == r[2]  fh == r[3]  fm == r[4]  fl == r[5] IN
    << s * 128 + (e \div 16),
       (e % 16) * 16 + (fh \div 65536),
       (fh \div 256) % 256,
       fh % 256,
       fm \div 256,
       fm % 256,
       fl \div 256,
       fl % 256 >>

\* A plausible slip: the integer payload written least significant byte first.
hash_value_le(val) ==
    CASE val.tag = "Null" -> <<TAG_NULL>>
      [] val.tag = "Integer" ->
            <<TAG_INTEGER>> \o [k \in 1..8 |-> I64ByteAt(val.int, 9 - k)]
      [] val.tag = "Real" -> <<TAG_REAL>> \o f64_to_be_bytes(val.real)
      [] val.tag = "Text" -> <<TAG_TEXT>> \o val.bytes
      [] val.tag = "Blob" -> <<TAG_BLOB>> \o val.bytes

\* The bytes hash_query feeds the hasher for one column value (the match
\* over ValueRef).
hash_value(val) ==
    CASE val.tag = "Null" -> <<TAG_NULL>>
      [] val.tag = "Integer" -> <<TAG_INTEGER>> \o i64_to_be_bytes(val.int)
      [] val.tag = "Real" -> <<TAG_REAL>> \o f64_to_be_bytes(val.real)
      [] val.tag = "Text" -> <<TAG_TEXT>> \o val.bytes
      [] val.tag = "Blob" -> <<TAG_BLOB>> \o val.bytes

\* ------------------------------------------------------- identifier quoting
\* A plausible slip: the name wrapped in quotes without doubling.
quote_name_plain(name) == name

\* name.replace('"', "\"\""): every double quote doubled.
RECURSIVE quote_name(_)
quote_name(name) ==
    IF name = <<>> THEN <<>>
    ELSE (IF Head(name) = DQUOTE THEN <<DQUOTE, DQUOTE>> ELSE <<Head(name)>>)
         \o quote_name(Tail(name))

\* "SELECT * FROM "
SelectAllFrom == <<83, 69, 76, 69, 67, 84, 32, 42, 32, 70, 82, 79, 77, 32>>

\* format!(r#"SELECT * FROM "{quoted_name}""#)
select_all_sql(name) == SelectAllFrom \o <<DQUOTE>> \o quote_name(name) \o <<DQUOTE>>

\* The engine's tokenizer on the text after an opening double quote: reads up
\* to the closing quote, a doubled quote standing for one quote character.
\* Yields the identifier and the text left after the closing quote.
RECURSIVE ScanIdent(_, _)
ScanIdent(text, acc) ==
    IF text = <<>> THEN [ok |-> FALSE, name |-> acc, rest |-> <<>>]
    ELSE IF Head(text) # DQUOTE THEN ScanIdent(Tail(text), Append(acc, Head(text)))
    ELSE IF Tail(text) # <<>> /\ Head(Tail(text)) = DQUOTE
         THEN ScanIdent(Tail(Tail(text)), Append(acc, DQUOTE))
         ELSE [ok |-> TRUE, name |-> acc, rest |-> Tail(text)]

\* The engine preparing a statement of the form SELECT * FROM "identifier":
\* the table name it resolves, or a syntax error.
ParseSelectAll(sql) ==
    LET n == Len(SelectAllFrom) IN
    IF Len(sql) < n + 1 \/ SubSeq(sql, 1, n) # SelectAllFrom \/ sql[n + 1] # DQUOTE
    THEN [ok |-> FALSE, name |-> <<>>]
    ELSE LET id == ScanIdent(SubSeq(sql, n + 2, Len(sql)), <<>>) IN
         [ok |-> id.ok /\ id.rest = <<>>, name |-> id.name]

\* -------------------------------------------------------- catalog queries
\* Catalog text: the values of sqlite_schema.type and the literal patterns
\* of the two discovery queries.
TypeTable == <<116, 97, 98, 108, 101>>
TypeIndex == <<105, 110, 100, 101, 120>>
TypeView == <<118, 105, 101, 119>>
TypeTrigger == <<116, 114, 105, 103, 103, 101, 114>>
\* 'CREATE VIRTUAL%%'
PatVirtual == <<67, 82, 69, 65, 84, 69, 32, 86, 73, 82, 84, 85, 65, 76, 37, 37>>
\* 'sqlite_%%'
PatInternal == <<115, 113, 108, 105, 116, 101, 95, 37, 37>>

\* The optional table_pattern: <<>> is None, <<p>> is Some(p).
NoPattern == <<>>
Some(p) == <<p>>

\* A plausible slip: the name filter left out of the discovery query.
TableWhereNoFilter(r, table_pattern) ==
    /\ r.type = TypeTable
    /\ ~Like(PatVirtual, r.sql)
    /\ ~Like(PatInternal, r.name)

\* WHERE clause of the table discovery query of hash_content.
TableWhere(r, table_pattern) ==
    /\ r.type = TypeTable
    /\ ~Like(PatVirtual, r.sql)
    /\ ~Like(PatInternal, r.name)
    /\ (table_pattern # NoPattern => Like(table_pattern[1], r.name))

\* A plausible slip: the schema query filtered on the object's own name.
SchemaWhereByName(r, table_pattern) ==
    table_pattern # NoPattern => Like(table_pattern[1], r.name)

\* A plausible slip: the filter left out of the schema query.
SchemaWhereNoFilter(r, table_pattern) == TRUE

\* A plausible slip: the schema query restricted to table definitions.
SchemaWhereTablesOnly(r, table_pattern) ==
    /\ r.type = TypeTable
    /\ (table_pattern # NoPattern => Like(table_pattern[1], r.tbl_name))

\* WHERE clause of the catalog query of hash_schema.
SchemaWhere(r, table_pattern) ==
    table_pattern # NoPattern => Like(table_pattern[1], r.tbl_name)

\* ORDER BY name COLLATE nocase over rows given in storage order.  Rows whose
\* names are equal under the collation come out in an order the statement
\* does not fix; tie is the engine's rule for them: "storage" keeps storage
\* order, "reverse" reverses it.
Precedes(rs, i, j, tie) ==
    LET c == NocaseCmp(Utf8(rs[i].name), Utf8(rs[j].name)) IN
    \/ c < 0
    \/ c = 0 /\ (IF tie = "storage" THEN i < j ELSE i > j)

OrderByNameNocase(rs, tie) ==
    [k \in 1..Len(rs) |->
        rs[CHOOSE i \in 1..Len(rs) :
              Cardinality({j \in 1..Len(rs) : Precedes(rs, j, i, tie)}) = k - 1]]

\* Result set of the table discovery query: one row holding the name.
TableNamesQuery(catalog, table_pattern, tie) ==
    LET hit == SelectSeq(catalog, LAMBDA r : TableWhere(r, table_pattern))
        srt == OrderByNameNocase(hit, tie)
    IN [k \in 1..Len(srt) |-> srt[k].name]

\* Result set of the schema query: rows (type, name, tbl_name, sql).
SchemaQuery(catalog, table_pattern, tie) ==
    LET hit == SelectSeq(catalog, LAMBDA r : SchemaWhere(r, table_pattern))
        srt == OrderByNameNocase(hit, tie)
    IN [k \in 1..Len(srt) |->
           << Text(Utf8(srt[k].type)), Text(Utf8(srt[k].name)),
              Text(Utf8(srt[k].tbl_name)), Text(Utf8(srt[k].sql)) >>]

\* ---------------------------------------------------------------- databases
\* A row of sqlite_schema: (type, name, tbl_name, sql).
Object(type, name, tbl_name, sql) ==
    [type |-> type, name |-> name, tbl_name |-> tbl_name, sql |-> sql]

\* Table names.  NameWeird is w"é. (a double quote, a non-ASCII letter and a
\* full stop); NameSqlitex begins with sqlite but not with sqlite_.
NameP1 == <<112, 49>>
NameP2 == <<80, 50>>
NameVw == <<118, 119>>
NameTr == <<116, 114>>
NameWeird == <<119, DQUOTE, 233, 46>>
NameSqlitex == <<115, 113, 108, 105, 116, 101, 120>>
NameSequence == <<115, 113, 108, 105, 116, 101, 95, 115, 101, 113, 117, 101, 110, 99, 101>>
NameVt == <<118, 116>>
NameLower == <<116>>
NameUpper == <<84>>

CreateTable(name) == <<67, 82, 69, 65, 84, 69, 32, 84, 65, 66, 76, 69, 32>> \o name
CreateView(name) == <<67, 82, 69, 65, 84, 69, 32, 86, 73, 69, 87, 32>> \o name
CreateTrigger(name) == <<67, 82, 69, 65, 84, 69, 32, 84, 82, 73, 71, 71, 69, 82, 32>> \o name
CreateVirtual(name) == <<67, 82, 69, 65, 84, 69, 32, 86, 73, 82, 84, 85, 65, 76, 32, 84, 65, 66, 76, 69, 32>> \o name
CreateIndex(name) == <<67, 82, 69, 65, 84, 69, 32, 73, 78, 68, 69, 88, 32>> \o name

\* Two ordinary tables, a view and a trigger (the shape of the databases of
\* tests/test_multiple.rs).
DbPlain ==
    [ schema |-> << Object(TypeTable, NameP1, NameP1, CreateTable(NameP1)),
                    Object(TypeTable, NameP2, NameP2, CreateTable(NameP2)),
                    Object(TypeView, NameVw, NameVw, CreateView(NameVw)),
                    Object(TypeTrigger, NameTr, NameP1, CreateTrigger(NameTr)) >>,
      tables |-> [n \in {NameP1, NameP2} |->
                    IF n = NameP1
                    THEN << <<Integer(0), Text(<<97>>)>>, <<Integer(-100), Null>> >>
                    ELSE << <<Integer(2147483647), Blob(<<>>)>> >>] ]

\* A table with a name that needs quoting holding NaN (with a payload),
\* -Infinity, text and a blob (tests/test_single.rs); a table named sqlitex;
\* the engine's internal sqlite_sequence table; a virtual table.
DbWeird ==
    [ schema |-> << Object(TypeTable, NameWeird, NameWeird, CreateTable(NameWeird)),
                    Object(TypeTable, NameSequence, NameSequence,
                           CreateTable(NameSequence)),
                    Object(TypeTable, NameSqlitex, NameSqlitex, CreateTable(NameSqlitex)),
                    Object(TypeTable, NameVt, NameVt, CreateVirtual(NameVt)) >>,
      tables |-> [n \in {NameWeird, NameSequence, NameSqlitex, NameVt} |->
                    CASE n = NameWeird ->
                            << <<Real(0, 2047, 524288, 0, 1), Text(<<195, 169>>),
                                 Integer(-2147483647)>>,
                               <<Real(1, 2047, 0, 0, 0), Blob(<<0, 255>>), Null>> >>
                      [] n = NameSequence -> << <<Text(<<112>>), Integer(3)>> >>
                      [] n = NameSqlitex -> << <<Integer(-1)>> >>
                      [] n = NameVt -> << <<Integer(7)>> >>] ]

\* Two tables whose names differ only in case, as a catalog holds them when
\* the engine tells table names apart by case.
DbCase ==
    [ schema |-> << Object(TypeTable, NameLower, NameLower, CreateTable(NameLower)),
                    Object(TypeTable, NameUpper, NameUpper, CreateTable(NameUpper)) >>,
      tables |-> [n \in {NameLower, NameUpper} |->
                    IF n = NameLower
                    THEN << <<Real(0, 1023, 0, 0, 0)>> >>
                    ELSE << <<Integer(256)>> >>] ]

Databases == {DbPlain, DbWeird, DbCase}

\* The engine's rules for rows equal under the collation.  The rule shows
\* only where a catalog holds such rows.
TieRules(d) == IF d = DbCase THEN {"storage", "reverse"} ELSE {"storage"}

\* The table_pattern arguments tried: None, p%, P1, zz, vw, %, w"%, sqlite%.
Patterns ==
    { NoPattern, Some(<<112, 37>>), Some(<<80, 49>>), Some(<<122, 122>>), Some(<<118, 119>>), Some(<<37>>),
      Some(<<119, DQUOTE, PERCENT>>), Some(<<115, 113, 108, 105, 116, 101, 37>>) }

Selections == {"SchemaAndContent", "SchemaOnly", "ContentOnly"}

\* rusqlite errors the engine can raise from any call.
EngineErrors == {"SQLITE_IOERR", "SQLITE_BUSY"}

\* ------------------------------------------------------------------- state
VARIABLES
    sqlite_schema,      \* the schema catalog, rows in storage order
    tables,             \* table name -> its rows, in the engine's scan order
    tie,                \* the engine's order for names equal under nocase
    table_pattern,      \* dbhash argument: <<>> or <<pattern>>
    selection,          \* dbhash argument
    pc,                 \* position of the dbhash call in progress, or "idle"
    hasher,             \* bytes fed to the Sha1 accumulator so far
    table_names,        \* hash_content: rows the discovery cursor has left
    name,               \* hash_content: name read from the discovery cursor
    select_all_stmt,    \* hash_content: text of the scan statement
    caller,             \* which function called hash_query
    rows,               \* hash_query: rows the cursor has left
    row,                \* hash_query: the current row
    col,                \* hash_query: index i of the column loop
    column_count_cell,  \* hash_query: <<>> until set, then <<count>>
    results,            \* what each finished call returned
    added,              \* owning tables of the indexes created so far
    log,                \* history: one entry per value fed to the hasher
    ran,                \* history: hashers entered by the call in progress
    scanned,            \* history: tables the engine opened for this call
    cur_table,          \* history: table the current content cursor reads
    cursor,             \* history: rows of the current cursor when it was run
    nrows,              \* history: rows the current cursor has yielded
    count_reads,        \* history: reads of the current cursor's column count
    raised,             \* history: error the engine raised in this call, or ""
    trace               \* history: whether results record where a call failed

vars == << sqlite_schema, tables, tie, table_pattern, selection, pc, hasher,
           table_names, name, select_all_stmt, caller, rows, row, col,
           column_count_cell, results, added, log, ran, scanned, cur_table,
           cursor, nrows, count_reads, raised, trace >>

db == << sqlite_schema, tables, tie >>
args == << table_pattern, selection, trace >>
locals == << hasher, table_names, name, select_all_stmt, caller, rows, row,
             col, column_count_cell >>
history == << log, ran, scanned, cur_table, cursor, nrows, count_reads >>

\* The phase of dbhash a position belongs to: table discovery, the content
\* scan of a table, or the schema scan.
PhaseOf(at, from) ==
    IF at \in {"names_prepare", "names_next"} THEN "discovery"
    ELSE IF at = "scan_prepare" \/ from = "content" THEN "content"
    ELSE "schema"

\* Where a call is: its phase and, in a content scan, the table scanned.
\* Recorded only in behaviours that trace failures.
NoWhere == [phase |-> "", table |-> <<>>]
Where(at, from, nm) ==
    IF trace
    THEN [phase |-> PhaseOf(at, from),
          table |-> IF PhaseOf(at, from) = "content" THEN nm ELSE <<>>]
    ELSE NoWhere

\* What a call returned: Ok(digest) or Err(e), the rusqlite error as the
\* engine raised it.  ok, digest and err are what the caller gets; the rest
\* is history: ver is the number of indexes the database had, raised the
\* error the engine raised during the call and where the phase and table in
\* which it raised it.
Ok(digest, r) ==
    [ok |-> TRUE, digest |-> digest, err |-> "", ver |-> Len(added),
     raised |-> r, where |-> NoWhere]
Err(e, r, w) ==
    [ok |-> FALSE, digest |-> <<>>, err |-> e, ver |-> Len(added),
     raised |-> r, where |-> w]

IncludesContent(sel) == sel \in {"SchemaAndContent", "ContentOnly"}
IncludesSchema(sel) == sel \in {"SchemaAndContent", "SchemaOnly"}

\* A plausible slip: the two hashers called in the other order.
dbhash_next_swapped(sel, at) ==
    CASE at = "start" ->
            IF IncludesSchema(sel) THEN "schema_prepare" ELSE "names_prepare"
      [] at = "schema" ->
            IF IncludesContent(sel) THEN "names_prepare" ELSE "finalize"
      [] at = "content" -> "finalize"

\* Control flow of dbhash: where it goes at its start, when hash_content
\* has returned Ok and when hash_schema has returned Ok.
dbhash_next(sel, at) ==
    CASE at = "start" ->
            IF IncludesContent(sel) THEN "names_prepare"
            ELSE IF IncludesSchema(sel) THEN "schema_prepare" ELSE "finalize"
      [] at = "content" ->
            IF IncludesSchema(sel) THEN "schema_prepare" ELSE "finalize"
      [] at = "schema" -> "finalize"

\* A plausible slip: the column count asked of every row.
get_every_row(cell, count) == [cell |-> <<count>>, reads |-> 1]

\* OnceCell::get_or_init on the column count: an empty cell reads the count
\* of the row's statement and keeps it, a set cell is returned as it is.
\* reads is the number of reads of the count the call made.
get_or_init(cell, count) ==
    IF cell = <<>> THEN [cell |-> <<count>>, reads |-> 1]
    ELSE [cell |-> cell, reads |-> 0]

\* A plausible slip: a failure of a table's scan dropped, the loop over
\* the tables going on.
on_error_skip_table(at, from) ==
    IF from = "content" /\ at \in {"query_next", "query_col"}
    THEN "names_next" ELSE "return"

\* The ? operator: where control goes when the engine call made at
\* position at fails.  Every call site returns the error to its caller,
\* up to the caller of dbhash.
on_error(at, from) == "return"

\* Positions at which dbhash is inside a call to the engine.
EngineCalls ==
    { "names_prepare", "names_next", "scan_prepare", "schema_prepare",
      "query_next", "query_col" }

\* The locals of a call are dropped when it returns, and with them the
\* history kept of the call.
DropLocals ==
    /\ log' = <<>>
    /\ ran' = {}
    /\ scanned' = <<>>
    /\ cur_table' = <<>>
    /\ cursor' = <<>>
    /\ nrows' = 0
    /\ count_reads' = 0
    /\ raised' = ""
    /\ hasher' = <<>>
    /\ table_names' = <<>>
    /\ name' = <<>>
    /\ select_all_stmt' = <<>>
    /\ caller' = "none"
    /\ rows' = <<>>
    /\ row' = <<>>
    /\ col' = 0
    /\ column_count_cell' = <<>>

Start ==
    /\ \E d \in Databases :
         /\ sqlite_schema = d.schema
         /\ tables = d.tables
         /\ tie \in TieRules(d)
    /\ table_pattern \in Patterns
    /\ selection \in Selections
    /\ pc = "idle"
    /\ hasher = <<>>
    /\ table_names = <<>>
    /\ name = <<>>
    /\ select_all_stmt = <<>>
    /\ caller = "none"
    /\ rows = <<>>
    /\ row = <<>>
    /\ col = 0
    /\ column_count_cell = <<>>
    /\ results = <<>>
    /\ added = <<>>
    /\ log = <<>>
    /\ ran = {}
    /\ scanned = <<>>
    /\ cur_table = <<>>
    /\ cursor = <<>>
    /\ nrows = 0
    /\ count_reads = 0
    /\ raised = ""

Init == Start /\ trace = FALSE

\* dbhash is called: a fresh accumulator, then the first hasher selected.
Call ==
    /\ pc = "idle"
    /\ Len(results) < MaxRuns
    /\ pc' = dbhash_next(selection, "start")
    /\ hasher' = <<>>
    /\ log' = <<>>
    /\ ran' = {}
    /\ scanned' = <<>>
    /\ cur_table' = <<>>
    /\ cursor' = <<>>
    /\ nrows' = 0
    /\ count_reads' = 0
    /\ raised' = ""
    /\ UNCHANGED << db, args, table_names, name, select_all_stmt, caller, rows,
                    row, col, column_count_cell, results, added >>

\* hash_content prepares and runs the table discovery query.
PrepareTableNames ==
    /\ pc = "names_prepare"
    /\ table_names' = TableNamesQuery(sqlite_schema, table_pattern, tie)
    /\ ran' = ran \cup {"content"}
    /\ pc' = "names_next"
    /\ UNCHANGED << db, args, hasher, name, select_all_stmt, caller, rows, row,
                    col, column_count_cell, results, added, log, scanned,
                    cur_table, cursor, nrows, count_reads, raised >>

\* hash_content advances the discovery cursor: at its end hash_content
\* returns Ok, otherwise it builds the scan statement of the next table.
NextTable ==
    /\ pc = "names_next"
    /\ IF table_names = <<>>
       THEN /\ pc' = dbhash_next(selection, "content")
            /\ UNCHANGED << table_names, name, select_all_stmt >>
       ELSE /\ name' = Head(table_names)
            /\ select_all_stmt' = select_all_sql(Head(table_names))
            /\ table_names' = Tail(table_names)
            /\ pc' = "scan_prepare"
    /\ UNCHANGED << db, args, hasher, caller, rows, row, col, column_count_cell,
                    results, added, history, raised >>

\* hash_content prepares and runs the scan statement and hands the cursor
\* to hash_query.  The engine resolves the table from the statement text; a
\* text it cannot parse, or a table it does not have, is an error that
\* hash_content returns.
PrepareScan ==
    /\ pc = "scan_prepare"
    /\ LET stmt == ParseSelectAll(select_all_stmt) IN
       IF stmt.ok /\ stmt.name \in DOMAIN tables
       THEN /\ rows' = tables[stmt.name]
            /\ caller' = "content"
            /\ column_count_cell' = <<>>
            /\ cursor' = tables[stmt.name]
            /\ nrows' = 0
            /\ count_reads' = 0
            /\ cur_table' = stmt.name
            /\ scanned' = Append(scanned, stmt.name)
            /\ pc' = "query_next"
            /\ UNCHANGED << hasher, table_names, name, select_all_stmt, row, col,
                            results, raised, log, ran >>
       ELSE /\ results' = Append(results, Err("SQLITE_ERROR", "SQLITE_ERROR",
                                            Where(pc, caller, name)))
            /\ pc' = "idle"
            /\ DropLocals
    /\ UNCHANGED << db, args, added >>

\* hash_schema prepares and runs the catalog query and hands the cursor to
\* hash_query.
PrepareSchema ==
    /\ pc = "schema_prepare"
    /\ rows' = SchemaQuery(sqlite_schema, table_pattern, tie)
    /\ caller' = "schema"
    /\ column_count_cell' = <<>>
    /\ cursor' = SchemaQuery(sqlite_schema, table_pattern, tie)
    /\ nrows' = 0
    /\ count_reads' = 0
    /\ ran' = ran \cup {"schema"}
    /\ cur_table' = <<>>
    /\ pc' = "query_next"
    /\ UNCHANGED << db, args, hasher, table_names, name, select_all_stmt, row,
                    col, results, added, log, scanned, raised >>

\* hash_query advances its cursor: at the end it returns Ok to its caller,
\* otherwise it takes the row and, on the first row, the column count.
NextRow ==
    /\ pc = "query_next"
    /\ IF rows = <<>>
       THEN /\ pc' = IF caller = "content" THEN "names_next"
                     ELSE dbhash_next(selection, "schema")
            /\ UNCHANGED << rows, row, col, column_count_cell, nrows,
                            count_reads >>
       ELSE LET got == get_or_init(column_count_cell, Len(Head(rows))) IN
            /\ row' = Head(rows)
            /\ rows' = Tail(rows)
            /\ nrows' = nrows + 1
            /\ column_count_cell' = got.cell
            /\ count_reads' = count_reads + got.reads
            /\ col' = 0
            /\ pc' = IF got.cell[1] > 0 THEN "query_col" ELSE "query_next"
    /\ UNCHANGED << db, args, hasher, table_names, name, select_all_stmt,
                    caller, results, added, log, ran, scanned, cur_table,
                    cursor, raised >>

\* hash_query reads column col of the row and feeds its encoding to the
\* hasher.
HashColumn ==
    /\ pc = "query_col"
    /\ LET val == row[col + 1] IN
       /\ hasher' = hasher \o hash_value(val)
       /\ log' = Append(log, [from |-> caller, table |-> cur_table, val |-> val,
                              at |-> Len(hasher), row |-> nrows, col |-> col])
    /\ col' = col + 1
    /\ pc' = IF col + 1 < column_count_cell[1] THEN "query_col" ELSE "query_next"
    /\ UNCHANGED << db, args, table_names, name, select_all_stmt, caller, rows,
                    row, column_count_cell, results, added, ran, scanned,
                    cur_table, cursor, nrows, count_reads, raised >>

\* dbhash finalizes the accumulator and returns the digest.
Finalize ==
    /\ pc = "finalize"
    /\ results' = Append(results, Ok(hasher, raised))
    /\ pc' = "idle"
    /\ DropLocals
    /\ UNCHANGED << db, args, added >>

\* An engine call fails with error e.
EngineError ==
    /\ pc \in EngineCalls
    /\ \E e \in EngineErrors :
         IF on_error(pc, caller) = "return"
         THEN /\ results' = Append(results, Err(e, e, Where(pc, caller, name)))
              /\ pc' = "idle"
              /\ DropLocals
         ELSE /\ pc' = on_error(pc, caller)
              /\ raised' = e
              /\ UNCHANGED << locals, results, history >>
    /\ UNCHANGED << db, args, added >>

\* Between two calls an index is created on one of the tables
\* (CREATE INDEX in the steps of the test suite).  The engine indexes
\* neither virtual tables nor its internal tables.
AddIndex ==
    /\ pc = "idle"
    /\ Len(added) < MaxIndexes
    /\ \E k \in 1..Len(sqlite_schema) :
         LET t == sqlite_schema[k]
             idx == <<105, 48 + Len(added)>> \o t.name
         IN /\ t.type = TypeTable
            /\ ~Like(PatVirtual, t.sql)
            /\ t.name # NameSequence
            /\ sqlite_schema' =
                  Append(sqlite_schema,
                         Object(TypeIndex, idx, t.name, CreateIndex(idx)))
            /\ added' = Append(added, t.name)
    /\ UNCHANGED << tables, tie, args, pc, locals, results, history, raised >>

Next ==
    \/ Call
    \/ PrepareTableNames
    \/ NextTable
    \/ PrepareScan
    \/ PrepareSchema
    \/ NextRow
    \/ HashColumn
    \/ Finalize
    \/ EngineError
    \/ AddIndex

Spec == Init /\ [][Next]_vars

\* The same calls, results recording where each failed call failed.
InitErrors == Start /\ trace = TRUE

SpecErrors == InitErrors /\ [][Next]_vars

\* -------------------------------------------- specification of the quoting
\* Characters of the table names tried: a double quote, a full stop, an
\* exclamation mark, a non-ASCII letter and a plain letter.
NameAlphabet == {DQUOTE, 46, 33, 233, 97}

TableNames == UNION { [1..n -> NameAlphabet] : n \in 1..MaxNameLen }

\* A database of one table with the given name and one row.
DbNamed(nm) ==
    [ schema |-> << Object(TypeTable, nm, nm, CreateTable(nm)) >>,
      tables |-> [n \in {nm} |-> << <<Integer(1)>> >>] ]

InitNames ==
    /\ \E nm \in TableNames :
         /\ sqlite_schema = DbNamed(nm).schema
         /\ tables = DbNamed(nm).tables
    /\ tie = "storage"
    /\ table_pattern = NoPattern
    /\ selection = "ContentOnly"
    /\ pc = "idle"
    /\ hasher = <<>>
    /\ table_names = <<>>
    /\ name = <<>>
    /\ select_all_stmt = <<>>
    /\ caller = "none"
    /\ rows = <<>>
    /\ row = <<>>
    /\ col = 0
    /\ column_count_cell = <<>>
    /\ results = <<>>
    /\ added = <<>>
    /\ log = <<>>
    /\ ran = {}
    /\ scanned = <<>>
    /\ cur_table = <<>>
    /\ cursor = <<>>
    /\ nrows = 0
    /\ count_reads = 0
    /\ raised = ""
    /\ trace = FALSE

\* The content hasher alone, the engine never failing.
NextNames ==
    \/ Call
    \/ PrepareTableNames
    \/ NextTable
    \/ PrepareScan
    \/ NextRow
    \/ HashColumn
    \/ Finalize

SpecNames == InitNames /\ [][NextNames]_vars

\* =================================================================== claims
Range(f) == {f[k] : k \in DOMAIN f}

\* The content hasher of the call in progress has returned Ok.
ContentDone ==
    /\ "content" \in ran
    /\ (pc \in {"schema_prepare", "finalize"} \/ caller = "schema")

\* The bytes fed to the hasher for entry k of the log.
Fed(k) ==
    SubSeq(hasher, log[k].at + 1,
           IF k < Len(log) THEN log[k + 1].at ELSE Len(hasher))

\* bytes is the tag and payload the contract gives for value v.  The eight
\* payload bytes of an Integer read back, most significant byte first, as
\* the two's-complement value; those of a Real as the sign, exponent and
\* fraction bits of the value.
EncodesValue(bytes, v) ==
    CASE v.tag = "Null" -> bytes = <<48>>
      [] v.tag = "Integer" ->
            /\ Len(bytes) = 9
            /\ bytes[1] = 49
            /\ \A k \in 2..5 : bytes[k] = IF v.int < 0 THEN 255 ELSE 0
            /\ v.int = (IF v.int < 0 THEN bytes[6] - 256 ELSE bytes[6]) * 16777216
                       + bytes[7] * 65536 + bytes[8] * 256 + bytes[9]
      [] v.tag = "Real" ->
            /\ Len(bytes) = 9
            /\ bytes[1] = 50
            /\ v.real = << bytes[2] \div 128,
                           (bytes[2] % 128) * 16 + (bytes[3] \div 16),
                           (bytes[3] % 16) * 65536 + bytes[4] * 256 + bytes[5],
                           bytes[6] * 256 + bytes[7],
                           bytes[8] * 256 + bytes[9] >>
      [] v.tag = "Text" -> bytes = <<51>> \o v.bytes
      [] v.tag = "Blob" -> bytes = <<52>> \o v.bytes

\* C1: the accumulator holds, for the values read so far and in the order
\* read, exactly the tag and payload of each value and nothing else: '0'
\* for Null, '1' and the 8 big-endian two's-complement bytes for Integer,
\* '2' and the 8 big-endian bytes of the raw bit pattern for Real, '3' and
\* the stored bytes for Text, '4' and the stored bytes for Blob.
C1_ValueEncoding ==
    /\ (log = <<>> => hasher = <<>>)
    /\ (log # <<>> => log[1].at = 0)
    /\ \A k \in 1..Len(log) : EncodesValue(Fed(k), log[k].val)

\* A content scan has fed a value of each of the five variants, among them
\* a negative Integer, a NaN with a payload and an infinity.
C1_Witness ==
    /\ \A t \in {"Null", "Integer", "Real", "Text", "Blob"} :
          \E k \in 1..Len(log) : log[k].val.tag = t
    /\ \E k \in 1..Len(log) : log[k].val.tag = "Integer" /\ log[k].val.int < 0
    /\ \E k \in 1..Len(log) :
          /\ log[k].val.tag = "Real"
          /\ log[k].val.real[2] = 2047
          /\ log[k].val.real[5] # 0
    /\ \E k \in 1..Len(log) :
          /\ log[k].val.tag = "Real"
          /\ log[k].val.real[2] = 2047
          /\ log[k].val.real[3] = 0 /\ log[k].val.real[4] = 0 /\ log[k].val.real[5] = 0

\* C2: with SchemaAndContent every byte of the content hasher is fed before
\* any byte of the schema hasher, and the schema hasher starts only when the
\* content hasher has returned; with SchemaOnly the content hasher never
\* runs; with ContentOnly the schema hasher never runs.
C2_ContentBeforeSchema ==
    /\ \A i, j \in 1..Len(log) :
          (log[i].from = "schema" /\ log[j].from = "content") => j < i
    /\ (selection = "SchemaAndContent" /\ "schema" \in ran) => ContentDone
    /\ (selection = "SchemaOnly" => "content" \notin ran)
    /\ (selection = "ContentOnly" => "schema" \notin ran)
    /\ \A k \in 1..Len(log) : log[k].from \in ran

\* A SchemaAndContent call about to finalize, with values of both hashers
\* in its accumulator.
C2_Witness ==
    /\ selection = "SchemaAndContent"
    /\ pc = "finalize"
    /\ \E i, j \in 1..Len(log) : log[i].from = "content" /\ log[j].from = "schema"

\* x begins with prefix, up to ASCII case.
RECURSIVE BeginsWith(_, _)
BeginsWith(x, prefix) ==
    \/ prefix = <<>>
    \/ /\ x # <<>>
       /\ Fold(Head(x)) = Fold(Head(prefix))
       /\ BeginsWith(Tail(x), Tail(prefix))

\* The names the contract of the table selector selects: type 'table', the
\* statement not beginning with CREATE VIRTUAL, the name not beginning with
\* sqlite_, and the name matching the filter when there is one.
ContractSelected ==
    { sqlite_schema[k].name : k \in
        { i \in 1..Len(sqlite_schema) :
            /\ sqlite_schema[i].type = TypeTable
            /\ ~BeginsWith(sqlite_schema[i].sql, SubSeq(PatVirtual, 1, 14))
            /\ ~BeginsWith(sqlite_schema[i].name, SubSeq(PatInternal, 1, 7))
            /\ (table_pattern # NoPattern =>
                   Like(table_pattern[1], sqlite_schema[i].name)) } }

\* C3: the tables hash_content scans are exactly the catalog objects of type
\* 'table' that are not virtual, whose name does not begin with sqlite_ and
\* whose name matches the filter, if any.
C3_SelectedExactly == ContentDone => Range(scanned) = ContractSelected

\* a sorts before b by codepoint.
RECURSIVE CodepointLess(_, _)
CodepointLess(a, b) ==
    IF b = <<>> THEN FALSE
    ELSE IF a = <<>> THEN TRUE
    ELSE IF Head(a) # Head(b) THEN Head(a) < Head(b)
    ELSE CodepointLess(Tail(a), Tail(b))

SchemaFed ==
    LET es == SelectSeq(log, LAMBDA e : e.from = "schema") IN
    [k \in 1..Len(es) |-> es[k].val]

\* The catalog objects whose owning table matches the filter.
SchemaMatching ==
    { i \in 1..Len(sqlite_schema) :
        table_pattern # NoPattern =>
            Like(table_pattern[1], sqlite_schema[i].tbl_name) }

\* Row r of the values fed by the schema hasher, as a catalog object.
SchemaFedRow(r) ==
    LET v == SchemaFed IN
    [ type |-> v[4 * r - 3], name |-> v[4 * r - 2],
      tbl_name |-> v[4 * r - 1], sql |-> v[4 * r] ]

\* C5: when hash_schema has returned, the row streamer was fed one row
\* (type, name, tbl_name, sql) for every catalog object whose owning table
\* matches the filter (every object without a filter), whatever its type,
\* and for no other, in ascending order of name under nocase.
C5_SchemaRows ==
    (pc = "finalize" /\ "schema" \in ran) =>
      LET n == Cardinality(SchemaMatching) IN
      /\ Len(SchemaFed) = 4 * n
      /\ \A i \in SchemaMatching :
            \E r \in 1..n :
               SchemaFedRow(r) =
                  [ type |-> Text(Utf8(sqlite_schema[i].type)),
                    name |-> Text(Utf8(sqlite_schema[i].name)),
                    tbl_name |-> Text(Utf8(sqlite_schema[i].tbl_name)),
                    sql |-> Text(Utf8(sqlite_schema[i].sql)) ]
      /\ \A r \in 1..(n - 1) :
            NocaseCmp(SchemaFedRow(r).name.bytes, SchemaFedRow(r + 1).name.bytes) <= 0

\* hash_schema has returned for a filter that matches the owning table of a
\* trigger but not the trigger's own name, and the rows fed include the
\* trigger and its table.
C5_Witness ==
    /\ pc = "finalize"
    /\ "schema" \in ran
    /\ table_pattern # NoPattern
    /\ Cardinality(SchemaMatching) >= 2
    /\ Cardinality(SchemaMatching) < Len(sqlite_schema)
    /\ \E k \in 1..Len(SchemaFed) : SchemaFed[k] = Text(Utf8(TypeTrigger))

\* inner is nm with every double quote doubled and every other character
\* unchanged.
RECURSIVE IsDoubled(_, _)
IsDoubled(inner, nm) ==
    IF nm = <<>> THEN inner = <<>>
    ELSE IF Head(nm) = 34
         THEN /\ Len(inner) >= 2
              /\ inner[1] = 34
              /\ inner[2] = 34
              /\ IsDoubled(Tail(Tail(inner)), Tail(nm))
         ELSE /\ inner # <<>>
              /\ Head(inner) = Head(nm)
              /\ IsDoubled(Tail(inner), Tail(nm))

\* C6: the identifier of the scan statement is a double quote, the name
\* with every double quote doubled, and a double quote; the engine reads it
\* back as the name, and the cursor hash_query gets reads the table of that
\* name.
C6_QuotedIdentifier ==
    /\ pc = "scan_prepare" =>
          LET n == Len(SelectAllFrom)
              m == Len(select_all_stmt)
          IN /\ m >= n + 2
             /\ SubSeq(select_all_stmt, 1, n) = SelectAllFrom
             /\ select_all_stmt[n + 1] = 34
             /\ select_all_stmt[m] = 34
             /\ IsDoubled(SubSeq(select_all_stmt, n + 2, m - 1), name)
             /\ ParseSelectAll(select_all_stmt).ok
             /\ ParseSelectAll(select_all_stmt).name = name
    /\ (pc \in {"query_next", "query_col"} /\ caller = "content") =>
          cur_table = name
    /\ \A k \in 1..Len(results) : results[k].ok

\* hash_query reads the rows of a table whose name holds a double quote
\* next to other characters.
C6_Witness ==
    /\ pc = "query_col"
    /\ caller = "content"
    /\ cur_table = name
    /\ Len(name) = 3
    /\ name[2] = 34
    /\ name[3] # 34

\* C7: every value fed by the content hasher was read from a table whose
\* name matches the filter of the call.
C7_FilterNarrowing ==
    \A k \in 1..Len(log) :
        (log[k].from = "content" /\ table_pattern # NoPattern) =>
            /\ Like(table_pattern[1], log[k].table)
            /\ log[k].table \in DOMAIN tables
            /\ \E r \in 1..Len(tables[log[k].table]) :
                 \E c \in 1..Len(tables[log[k].table][r]) :
                    tables[log[k].table][r][c] = log[k].val

\* A filtered call has fed values of a matching table while the database
\* holds another table, with rows, that the filter does not match.
C7_Witness ==
    /\ table_pattern # NoPattern
    /\ \E k \in 1..Len(log) : log[k].from = "content"
    /\ \E k \in 1..Len(sqlite_schema) :
          /\ sqlite_schema[k].type = TypeTable
          /\ ~BeginsWith(sqlite_schema[k].name, SubSeq(PatInternal, 1, 6))
          /\ ~Like(table_pattern[1], sqlite_schema[k].name)
          /\ tables[sqlite_schema[k].name] # <<>>
    /\ pc = "finalize"

\* Some index created after call i returned and before call j started is on
\* a table the filter covers.
IndexCovered(i, j) ==
    \/ table_pattern = NoPattern
    \/ \E k \in (results[i].ver + 1)..results[j].ver :
          Like(table_pattern[1], added[k])

\* Calls i and j both returned a digest, and an index was created between
\* them.
IndexedBetween(i, j) ==
    /\ i < j
    /\ results[i].ok
    /\ results[j].ok
    /\ results[i].ver < results[j].ver

\* C8 as claimed: for every filter, the SchemaOnly and the SchemaAndContent
\* digest after an index was added differ from the digest before, and the
\* ContentOnly digest is the same.
C8_IndexChangesSchemaDigest ==
    \A i, j \in 1..Len(results) :
        IndexedBetween(i, j) =>
            IF selection = "ContentOnly"
            THEN results[i].digest = results[j].digest
            ELSE results[i].digest # results[j].digest

\* C8, amended: the SchemaOnly and the SchemaAndContent digest differ when
\* there is no filter or the filter matches the name of the table the index
\* is on; the ContentOnly digest is the same for every filter.
C8_IndexOnCoveredTable ==
    \A i, j \in 1..Len(results) :
        IndexedBetween(i, j) =>
            /\ selection = "ContentOnly" => results[i].digest = results[j].digest
            /\ (selection # "ContentOnly" /\ IndexCovered(i, j)) =>
                  results[i].digest # results[j].digest

\* Two SchemaOnly digests taken with a filter, before and after an index
\* was created on a table the filter matches.
C8_Witness ==
    /\ selection = "SchemaOnly"
    /\ table_pattern # NoPattern
    /\ \E i, j \in 1..Len(results) : IndexedBetween(i, j) /\ IndexCovered(i, j)

\* The filter matches the name of no table of the catalog.
MatchesNoTable ==
    /\ table_pattern # NoPattern
    /\ \A k \in 1..Len(sqlite_schema) :
          sqlite_schema[k].type = TypeTable =>
              ~Like(table_pattern[1], sqlite_schema[k].name)

\* The filter matches the owning-table name of no object of the catalog.
MatchesNoObject ==
    /\ table_pattern # NoPattern
    /\ \A k \in 1..Len(sqlite_schema) :
          ~Like(table_pattern[1], sqlite_schema[k].tbl_name)

\* C9 as claimed: a call with a filter that matches no table, the engine
\* not failing, returns the digest of the empty byte stream.
C9_NoTableEmptyDigest ==
    \A k \in 1..Len(results) :
        (MatchesNoTable /\ results[k].raised = "") =>
            results[k].ok /\ results[k].digest = <<>>

\* C9, amended: a call, the engine not failing, returns the digest of the
\* empty byte stream when its filter matches the owning-table name of no
\* catalog object (the name of no table and of no view), and also when the
\* mode is ContentOnly and the filter matches the name of no table.
C9_NoObjectEmptyDigest ==
    \A k \in 1..Len(results) :
        ( /\ results[k].raised = ""
          /\ \/ MatchesNoObject
             \/ selection = "ContentOnly" /\ MatchesNoTable ) =>
            results[k].ok /\ results[k].digest = <<>>

\* A SchemaAndContent call on a database with tables has returned for a
\* filter that matches no object.
C9_Witness ==
    /\ selection = "SchemaAndContent"
    /\ MatchesNoObject
    /\ \E k \in 1..Len(sqlite_schema) :
          /\ sqlite_schema[k].type = TypeTable
          /\ tables[sqlite_schema[k].name] # <<>>
    /\ \E k \in 1..Len(results) : results[k].ok /\ results[k].digest = <<>>

\* C10: a call in which an engine operation failed has returned at the
\* failure, and what it returned is that error and no digest: no call goes
\* on after a failure to scan, to feed the accumulator or to finalize it.
C10_ErrorAborts ==
    /\ raised = ""
    /\ \A k \in 1..Len(results) :
          results[k].raised # "" =>
              /\ ~results[k].ok
              /\ results[k].err = results[k].raised
              /\ results[k].digest = <<>>
    /\ \A k \in 1..Len(results) : ~results[k].ok => results[k].raised # ""

\* Both engine errors have been returned by calls, the second call made
\* after the first had failed.
C10_Witness ==
    /\ Len(results) = 2
    /\ ~results[1].ok
    /\ ~results[2].ok
    /\ results[1].err # results[2].err
    /\ results[1].err = results[1].raised
    /\ results[2].err = results[2].raised

\* C11: the error a failed call returns identifies the phase in which the
\* engine failed (table discovery, the content scan of a named table, the
\* schema scan): two calls that failed with the same engine error in
\* different phases, or in the scans of different tables, returned
\* different error values.
C11_ErrorNamesPhase ==
    \A i, j \in 1..Len(results) :
        ( /\ ~results[i].ok
          /\ ~results[j].ok
          /\ results[i].raised = results[j].raised
          /\ results[i].where # results[j].where ) =>
            results[i].err # results[j].err

\* Positions inside hash_query.
InQuery == pc \in {"query_next", "query_col"}

\* The values the current cursor has fed to the hasher.
CursorLog ==
    SelectSeq(log, LAMBDA l : l.from = caller /\ l.table = cur_table)

\* C12: in hash_query the column count of a cursor is read at most once,
\* and only once the cursor has yielded its first row (never before, never
\* for a cursor that yields no row); the count read is used for every row
\* of the cursor: each row feeds exactly that many values, its columns
\* 0 .. count-1 from left to right.
C12_ColumnCountOnce ==
    InQuery =>
        /\ count_reads <= 1
        /\ (count_reads = 1) <=> (nrows >= 1)
        /\ (column_count_cell # <<>>) <=> (nrows >= 1)
        /\ rows = SubSeq(cursor, nrows + 1, Len(cursor))
        /\ nrows = 0 => CursorLog = <<>>
        /\ nrows >= 1 =>
             LET count == column_count_cell[1]
                 whole == IF pc = "query_col" THEN nrows - 1 ELSE nrows
                 part == IF pc = "query_col" THEN col ELSE 0
             IN /\ \A r \in 1..nrows : Len(cursor[r]) = count
                /\ Len(CursorLog) = whole * count + part
                /\ \A k \in 1..Len(CursorLog) :
                     /\ CursorLog[k].row = ((k - 1) \div count) + 1
                     /\ CursorLog[k].col = (k - 1) % count
                     /\ CursorLog[k].val =
                            cursor[CursorLog[k].row][CursorLog[k].col + 1]

\* A cursor of several rows and several columns read to its end.
C12_Witness ==
    /\ pc = "query_next"
    /\ rows = <<>>
    /\ nrows = Len(cursor)
    /\ nrows >= 2
    /\ count_reads = 1
    /\ column_count_cell # <<>>
    /\ column_count_cell[1] >= 2
    /\ Len(CursorLog) = nrows * column_count_cell[1]

====
